---- MODULE Spec2Model ----
(***************************************************************************)
(* A model of the surreal-number engine of src/surreals.cpp.               *)
(*                                                                         *)
(* A Surreal is a record [left, right]; each side is a std::set<Surreal>,  *)
(* modelled as a sequence that is strictly ascending under operator< (the  *)
(* iteration order of the std::set, whose comparator is std::less, hence   *)
(* operator<; elements equal under the comparator are one element).        *)
(* The two lookup tables are std::map's keyed by std::pair<Surreal,        *)
(* Surreal>; each is modelled as the sequence of its entries in key order  *)
(* (the order in which the canonicalization scan walks the map).           *)
(* A thrown std::runtime_error is the flag err of the threaded state: once *)
(* it is set every later step of the call is skipped.                      *)
(***************************************************************************)
EXTENDS Integers, Sequences, FiniteSets, TLC

VARIABLES AddLookup, MultLookup, last, nops, pool, inf

vars == <<AddLookup, MultLookup, last, nops, pool, inf>>

(***************************************************************************)
(* Bounds of the model.                                                    *)
(***************************************************************************)
\* greatest number of elements on one side of a hand-built number
MaxSide == 2
\* greatest number of elements of a set handed to the two-set constructor
MaxSetLen == 2
\* greatest number of arithmetic calls in one behaviour
MaxOps == 2
\* the integers -MaxInt..MaxInt are operands of the integer scenarios
MaxInt == 2
\* the floats handed to the float constructor are multiples of 2^-MaxExp
MaxExp == 3
\* greatest index asked of a generating function, and greatest print width
MaxWidth == 2

(***************************************************************************)
(* The number { | } (Surreal's default constructor).                       *)
(***************************************************************************)
Zero == [left |-> <<>>, right |-> <<>>]

(***************************************************************************)
(* Comparator: operator<= and the derived order operators.                 *)
(***************************************************************************)
RECURSIVE Le(_, _)
\* <= whose first loop tests a_left_item <= b instead of b <= a_left_item
LeSwapped(a, b) ==
    /\ \A i \in DOMAIN a.left : ~Le(a.left[i], b)
    /\ \A j \in DOMAIN b.right : ~Le(b.right[j], a)

Le(a, b) ==
    /\ \A i \in DOMAIN a.left : ~Le(b, a.left[i])
    /\ \A j \in DOMAIN b.right : ~Le(b.right[j], a)

Ge(a, b) == Le(b, a)

Eq(a, b) == Le(a, b) /\ Le(b, a)

Neq(a, b) == ~Eq(a, b)

Gt(a, b) == ~Le(a, b)

Lt(a, b) == Gt(b, a)

(***************************************************************************)
(* std::set<Surreal>: insertion keeps the sequence ascending and drops an  *)
(* element equal (under the comparator) to one already present.            *)
(***************************************************************************)
SetMin(S) == CHOOSE x \in S : \A y \in S : x <= y

SetInsert(s, x) ==
    LET notLess == {i \in 1..Len(s) : ~Lt(s[i], x)}
    IN  IF notLess = {} THEN Append(s, x)
        ELSE LET i == SetMin(notLess)
             IN  IF Lt(x, s[i])
                 THEN SubSeq(s, 1, i - 1) \o <<x>> \o SubSeq(s, i, Len(s))
                 ELSE s

RECURSIVE SetInsertAll(_, _)
SetInsertAll(s, t) ==
    IF t = <<>> THEN s
    ELSE SetInsertAll(SetInsert(s, Head(t)), Tail(t))

Size(x) == Len(x.left) + Len(x.right)

(***************************************************************************)
(* Constructor from two sets.  err is the thrown runtime_error.            *)
(***************************************************************************)
\* the check written with < in place of <=
BadSetsStrict(leftIn, rightIn) ==
    \E j \in DOMAIN rightIn : \E i \in DOMAIN leftIn : Lt(rightIn[j], leftIn[i])

BadSets(leftIn, rightIn) ==
    \E j \in DOMAIN rightIn : \E i \in DOMAIN leftIn : Le(rightIn[j], leftIn[i])

\* simplification that keeps *leftIn.begin() instead of *leftIn.rbegin()
SurrealSetsFirstLeft(leftIn, rightIn, simplify) ==
    IF BadSets(leftIn, rightIn)
    THEN [err |-> TRUE, val |-> Zero]
    ELSE IF simplify
         THEN [err |-> FALSE,
               val |-> [left  |-> IF leftIn = <<>> THEN <<>> ELSE <<leftIn[1]>>,
                        right |-> IF rightIn = <<>> THEN <<>> ELSE <<rightIn[1]>>]]
         ELSE [err |-> FALSE,
               val |-> [left  |-> SetInsertAll(<<>>, leftIn),
                        right |-> SetInsertAll(<<>>, rightIn)]]

SurrealSets(leftIn, rightIn, simplify) ==
    IF BadSets(leftIn, rightIn)
    THEN [err |-> TRUE, val |-> Zero]
    ELSE IF simplify
         THEN [err |-> FALSE,
               val |-> [left  |-> IF leftIn = <<>> THEN <<>>
                                  ELSE <<leftIn[Len(leftIn)]>>,
                        right |-> IF rightIn = <<>> THEN <<>>
                                  ELSE <<rightIn[1]>>]]
         ELSE [err |-> FALSE,
               val |-> [left  |-> SetInsertAll(<<>>, leftIn),
                        right |-> SetInsertAll(<<>>, rightIn)]]

(***************************************************************************)
(* Constructor from two numbers (left, right).                             *)
(***************************************************************************)
SurrealPair(sur_left, sur_right) ==
    IF Lt(sur_left, sur_right)
    THEN [err |-> FALSE, val |-> [left |-> <<sur_left>>, right |-> <<sur_right>>]]
    ELSE [err |-> TRUE, val |-> Zero]

(***************************************************************************)
(* Constructor from an integer: zero nested |input| times.                 *)
(***************************************************************************)
RECURSIVE SurrealInt(_)
SurrealInt(input) ==
    IF input = 0 THEN Zero
    ELSE IF input > 0
         THEN SurrealSets(<<SurrealInt(input - 1)>>, <<>>, TRUE).val
         ELSE SurrealSets(<<>>, <<SurrealInt(input + 1)>>, TRUE).val

(***************************************************************************)
(* Depth(): 0 for the empty pair, else one more than the greatest depth    *)
(* among the elements of both sets.                                        *)
(***************************************************************************)
\* the running maximum of the loops, which starts at 0
DepthMax(S) == IF S = {} THEN 0 ELSE CHOOSE m \in S : \A k \in S : k <= m

RECURSIVE Depth(_)
\* a depth that looks at the left set only
DepthLeftOnly(x) ==
    IF x.left = <<>> /\ x.right = <<>> THEN 0
    ELSE DepthMax({Depth(x.left[i]) : i \in DOMAIN x.left}) + 1

Depth(x) ==
    IF x.left = <<>> /\ x.right = <<>> THEN 0
    ELSE LET leftMax == DepthMax({Depth(x.left[i]) : i \in DOMAIN x.left})
             rightMax == DepthMax({Depth(x.right[i]) : i \in DOMAIN x.right})
         IN  IF leftMax >= rightMax THEN leftMax + 1 ELSE rightMax + 1

(***************************************************************************)
(* Negation and NegateSet.  The two-set constructor is called with its     *)
(* default simplify = true.                                                *)
(***************************************************************************)
RECURSIVE Negate(_), NegateSet(_)
\* negation that negates the elements but does not swap the sides
NegateNoSwap(a) ==
    LET tempL == NegateSet(a.left)
        tempR == NegateSet(a.right)
    IN  IF tempL.err \/ tempR.err THEN [err |-> TRUE, val |-> Zero]
        ELSE SurrealSets(tempL.set, tempR.set, TRUE)

Negate(a) ==
    LET tempL == NegateSet(a.right)
        tempR == NegateSet(a.left)
    IN  IF tempL.err \/ tempR.err THEN [err |-> TRUE, val |-> Zero]
        ELSE SurrealSets(tempL.set, tempR.set, TRUE)

NegateSet(sur_set) ==
    IF sur_set = <<>> THEN [err |-> FALSE, set |-> <<>>]
    ELSE LET n == Len(sur_set)
             p == NegateSet(SubSeq(sur_set, 1, n - 1))
             e == Negate(sur_set[n])
         IN  IF p.err \/ e.err THEN [err |-> TRUE, set |-> <<>>]
             ELSE [err |-> FALSE, set |-> SetInsert(p.set, e.val)]

(***************************************************************************)
(* The lookup tables: std::map<std::pair<Surreal, Surreal>, Surreal>.      *)
(***************************************************************************)
\* a key that keeps the operands in call order
MinMaxAsGiven(a, b) == <<a, b>>

MinMax(a, b) == IF Lt(b, a) THEN <<b, a>> ELSE <<a, b>>

\* a key order that looks at the first operand only
PairLtFirst(p, q) == Lt(p[1], q[1])

PairLt(p, q) == Lt(p[1], q[1]) \/ (~Lt(q[1], p[1]) /\ Lt(p[2], q[2]))

\* std::map::lower_bound: the index of the first entry whose key is not
\* less than key (Len(tab) + 1 when there is none), found by descending the
\* ordered map, here a binary search between lo and hi
RECURSIVE LowerBound(_, _, _, _)
LowerBound(tab, key, lo, hi) ==
    IF lo >= hi THEN lo
    ELSE LET mid == (lo + hi) \div 2
         IN  IF PairLt(tab[mid].key, key)
             THEN LowerBound(tab, key, mid + 1, hi)
             ELSE LowerBound(tab, key, lo, mid)

\* std::map::find: the index of the entry with an equivalent key, or 0
Find(tab, key) ==
    LET i == LowerBound(tab, key, 1, Len(tab) + 1)
    IN  IF i <= Len(tab) /\ ~PairLt(key, tab[i].key) THEN i ELSE 0

\* std::map::emplace: no effect when an equivalent key is present
Emplace(tab, key, val) ==
    LET i == LowerBound(tab, key, 1, Len(tab) + 1)
    IN  IF i <= Len(tab) /\ ~PairLt(key, tab[i].key) THEN tab
        ELSE SubSeq(tab, 1, i - 1) \o <<[key |-> key, val |-> val]>>
                 \o SubSeq(tab, i, Len(tab))

(***************************************************************************)
(* The canonicalization scan shared by operator+ and operator*.  The while *)
(* loop visits the entries in key order and acts only on those whose value *)
(* equals res.  It breaks at the first of them that has at most resSize    *)
(* elements (branches resSize > eqSize and resSize = eqSize), taking its   *)
(* value as the result; every equal entry it passes before that has more   *)
(* elements and is overwritten with res (branch resSize < eqSize).         *)
(* ScanBreak finds the entry of the break between lo and hi, 0 when the    *)
(* loop runs to the end of the table.                                      *)
(***************************************************************************)
RECURSIVE ScanBreak(_, _, _, _, _)
ScanBreak(res, resSize, tab, lo, hi) ==
    IF lo > hi THEN 0
    ELSE IF lo = hi
         THEN IF Eq(res, tab[lo].val) /\ resSize >= Size(tab[lo].val)
              THEN lo ELSE 0
         ELSE LET mid == (lo + hi) \div 2
                  first == ScanBreak(res, resSize, tab, lo, mid)
              IN  IF first # 0 THEN first
                  ELSE ScanBreak(res, resSize, tab, mid + 1, hi)

\* a scan that never replaces the raw result
ScanNothing(res, resSize, tab) == [res |-> res, tab |-> tab]

\* a scan that overwrites every equal entry it visits, the one it breaks at too
ScanOverwriteAll(res, resSize, tab) ==
    LET brk == ScanBreak(res, resSize, tab, 1, Len(tab))
        stop == IF brk = 0 THEN Len(tab) + 1 ELSE brk
    IN  [res |-> IF brk = 0 THEN res ELSE tab[brk].val,
         tab |-> [i \in 1..Len(tab) |->
                    IF i <= stop /\ Eq(res, tab[i].val)
                    THEN [tab[i] EXCEPT !.val = res]
                    ELSE tab[i]]]

\* a scan that at an equal entry of equal size stops but keeps the raw result
ScanKeepAtEqualSize(res, resSize, tab) ==
    LET brk == ScanBreak(res, resSize, tab, 1, Len(tab))
        stop == IF brk = 0 THEN Len(tab) + 1 ELSE brk
    IN  [res |-> IF brk = 0 \/ resSize = Size(tab[stop].val) THEN res ELSE tab[brk].val,
         tab |-> [i \in 1..Len(tab) |->
                    IF i < stop /\ Eq(res, tab[i].val)
                    THEN [tab[i] EXCEPT !.val = res]
                    ELSE tab[i]]]

Scan(res, resSize, tab) ==
    LET brk == ScanBreak(res, resSize, tab, 1, Len(tab))
        stop == IF brk = 0 THEN Len(tab) + 1 ELSE brk
    IN  [res |-> IF brk = 0 THEN res ELSE tab[brk].val,
         tab |-> [i \in 1..Len(tab) |->
                    IF i < stop /\ Eq(res, tab[i].val)
                    THEN [tab[i] EXCEPT !.val = res]
                    ELSE tab[i]]]

Thrown(st) == [st EXCEPT !.err = TRUE]

(***************************************************************************)
(* operator+ on numbers and on sets.  st = [add, mult, err] is the state   *)
(* of the two tables threaded through the recursion.                       *)
(***************************************************************************)
\* what a call that missed the table constructed before the scan: the two
\* unions handed to the constructor and the number res it built from them
\* (kept beside the result for the caller of the model; not part of the
\* value the code returns)
Raw(tempL1, tempR1, res) == [miss |-> TRUE, left |-> tempL1, right |-> tempR1, res |-> res]

NoRaw == [miss |-> FALSE, left |-> <<>>, right |-> <<>>, res |-> Zero]

RECURSIVE Add(_, _, _), SetPlusNum(_, _, _)
Add(a, b, st) ==
    IF st.err THEN [val |-> Zero, st |-> st]
    ELSE
    LET key == MinMax(a, b)
        lookup == Find(st.add, key)
    IN  IF lookup # 0 THEN [val |-> st.add[lookup].val, st |-> st]
        ELSE
        LET L1 == SetPlusNum(a.left, b, st) IN
        IF L1.st.err THEN [val |-> Zero, st |-> L1.st] ELSE
        LET R1 == SetPlusNum(a.right, b, L1.st) IN
        IF R1.st.err THEN [val |-> Zero, st |-> R1.st] ELSE
        LET L2 == SetPlusNum(b.left, a, R1.st) IN
        IF L2.st.err THEN [val |-> Zero, st |-> L2.st] ELSE
        LET R2 == SetPlusNum(b.right, a, L2.st) IN
        IF R2.st.err THEN [val |-> Zero, st |-> R2.st] ELSE
        LET tempL == SetInsertAll(L1.set, L2.set)
            tempR == SetInsertAll(R1.set, R2.set)
            raw == SurrealSets(tempL, tempR, TRUE)
        IN  IF raw.err THEN [val |-> Zero, st |-> Thrown(R2.st)]
            ELSE LET sc == Scan(raw.val, Size(raw.val), R2.st.add)
                 IN  [val |-> sc.res,
                      st |-> [R2.st EXCEPT !.add = Emplace(sc.tab, key, sc.res)],
                      raw |-> Raw(tempL, tempR, raw.val)]

SetPlusNum(sur_set, sur_num, st) ==
    IF sur_set = <<>> \/ st.err THEN [set |-> <<>>, st |-> st]
    ELSE LET n == Len(sur_set)
             p == SetPlusNum(SubSeq(sur_set, 1, n - 1), sur_num, st)
         IN  IF p.st.err THEN p
             ELSE LET e == Add(sur_set[n], sur_num, p.st)
                  IN  IF e.st.err THEN [set |-> <<>>, st |-> e.st]
                      ELSE [set |-> SetInsert(p.set, e.val), st |-> e.st]

(***************************************************************************)
(* Binary operator-: a + (-b).                                             *)
(***************************************************************************)
Sub(a, b, st) ==
    IF st.err THEN [val |-> Zero, st |-> st]
    ELSE LET n == Negate(b)
         IN  IF n.err THEN [val |-> Zero, st |-> Thrown(st)]
             ELSE Add(a, n.val, st)

\* result.insert(e) for the number e that a call returned, or the throw of
\* that call
InsertResult(set, e) ==
    IF e.st.err THEN [set |-> <<>>, st |-> e.st]
    ELSE [set |-> SetInsert(set, e.val), st |-> e.st]

RECURSIVE SetPlusSetRow(_, _, _)
\* the inner loop of set + set: elem1 + elem2 for every elem2, inserted into
\* the result so far, acc = [set, st]
SetPlusSetRow(elem1, sur_set2, acc) ==
    IF sur_set2 = <<>> \/ acc.st.err THEN acc
    ELSE SetPlusSetRow(elem1, Tail(sur_set2),
                       InsertResult(acc.set, Add(elem1, Head(sur_set2), acc.st)))

RECURSIVE SetPlusSetFrom(_, _, _)
SetPlusSetFrom(sur_set1, sur_set2, acc) ==
    IF sur_set1 = <<>> \/ acc.st.err THEN acc
    ELSE SetPlusSetFrom(Tail(sur_set1), sur_set2,
                        SetPlusSetRow(Head(sur_set1), sur_set2, acc))

\* set + set that returns the first set when the second is empty
SetPlusSetKeep(sur_set1, sur_set2, st) ==
    IF sur_set2 = <<>> THEN [set |-> sur_set1, st |-> st]
    ELSE SetPlusSetFrom(sur_set1, sur_set2, [set |-> <<>>, st |-> st])

SetPlusSet(sur_set1, sur_set2, st) ==
    SetPlusSetFrom(sur_set1, sur_set2, [set |-> <<>>, st |-> st])

\* (set + set) + set: the second operator+ of a sum of three sets
SetPlusSetTo(r, sur_set3) ==
    IF r.st.err THEN r ELSE SetPlusSet(r.set, sur_set3, r.st)

(***************************************************************************)
(* operator* on numbers and on sets.                                       *)
(***************************************************************************)
\* the products are not negated
NegateSetInSkip(r) == r

\* NegateSet inside operator*: a throw of the constructor ends the call
NegateSetIn(r) ==
    IF r.st.err THEN r
    ELSE LET n == NegateSet(r.set)
         IN  IF n.err THEN [set |-> <<>>, st |-> Thrown(r.st)]
             ELSE [set |-> n.set, st |-> r.st]

RECURSIVE Mult(_, _, _), SetTimesNum(_, _, _), SetTimesSetRow(_, _, _, _),
          SetTimesSetFrom(_, _, _, _), SetTimesSet(_, _, _)
\* the end of operator*: the sides are united, the number is constructed,
\* canonicalized against MultLookup and stored
MultStore(key, tempL1, tempL2, tempR1, tempR2) ==
    IF tempR2.st.err THEN [val |-> Zero, st |-> tempR2.st] ELSE
    LET tempL == SetInsertAll(tempL1, tempL2)
        tempR == SetInsertAll(tempR1, tempR2.set)
        raw == SurrealSets(tempL, tempR, TRUE)
    IN  IF raw.err THEN [val |-> Zero, st |-> Thrown(tempR2.st)]
        ELSE LET sc == Scan(raw.val, Size(raw.val), tempR2.st.mult)
             IN  [val |-> sc.res,
                  st |-> [tempR2.st EXCEPT !.mult = Emplace(sc.tab, key, sc.res)],
                  raw |-> Raw(tempL, tempR, raw.val)]

\* tempR2 = Ar*b + a*Bl - Ar*Bl, after tempR1
MultTempR2(key, Ar_b, Bl_a, negAr_Bl, tempL1, tempL2, tempR1) ==
    IF tempR1.st.err THEN [val |-> Zero, st |-> tempR1.st] ELSE
    MultStore(key, tempL1, tempL2, tempR1.set,
              SetPlusSetTo(SetPlusSet(Ar_b, Bl_a, tempR1.st), negAr_Bl))

\* tempR1 = Al*b + a*Br - Al*Br, after tempL2
MultTempR1(key, Al_b, Ar_b, Bl_a, Br_a, negAl_Br, negAr_Bl, tempL1, tempL2) ==
    IF tempL2.st.err THEN [val |-> Zero, st |-> tempL2.st] ELSE
    MultTempR2(key, Ar_b, Bl_a, negAr_Bl, tempL1, tempL2.set,
               SetPlusSetTo(SetPlusSet(Al_b, Br_a, tempL2.st), negAl_Br))

\* tempL2 = Ar*b + a*Br - Ar*Br, after tempL1
MultTempL2(key, Al_b, Ar_b, Bl_a, Br_a, negAr_Br, negAl_Br, negAr_Bl, tempL1) ==
    IF tempL1.st.err THEN [val |-> Zero, st |-> tempL1.st] ELSE
    MultTempR1(key, Al_b, Ar_b, Bl_a, Br_a, negAl_Br, negAr_Bl, tempL1.set,
               SetPlusSetTo(SetPlusSet(Ar_b, Br_a, tempL1.st), negAr_Br))

\* operator*: the memo lookup, the four products of a side with the other
\* number, the four negated products of a side with a side, then
\* tempL1 = Al*b + a*Bl - Al*Bl and the other three sums
Mult(a, b, st) ==
    IF st.err THEN [val |-> Zero, st |-> st]
    ELSE
    LET key == MinMax(a, b)
        lookup == Find(st.mult, key)
    IN  IF lookup # 0 THEN [val |-> st.mult[lookup].val, st |-> st]
        ELSE
        LET Al_b == SetTimesNum(a.left, b, st) IN
        IF Al_b.st.err THEN [val |-> Zero, st |-> Al_b.st] ELSE
        LET Ar_b == SetTimesNum(a.right, b, Al_b.st) IN
        IF Ar_b.st.err THEN [val |-> Zero, st |-> Ar_b.st] ELSE
        LET Bl_a == SetTimesNum(b.left, a, Ar_b.st) IN
        IF Bl_a.st.err THEN [val |-> Zero, st |-> Bl_a.st] ELSE
        LET Br_a == SetTimesNum(b.right, a, Bl_a.st) IN
        IF Br_a.st.err THEN [val |-> Zero, st |-> Br_a.st] ELSE
        LET negAl_Bl == NegateSetIn(SetTimesSet(a.left, b.left, Br_a.st)) IN
        IF negAl_Bl.st.err THEN [val |-> Zero, st |-> negAl_Bl.st] ELSE
        LET negAr_Br == NegateSetIn(SetTimesSet(a.right, b.right, negAl_Bl.st)) IN
        IF negAr_Br.st.err THEN [val |-> Zero, st |-> negAr_Br.st] ELSE
        LET negAl_Br == NegateSetIn(SetTimesSet(a.left, b.right, negAr_Br.st)) IN
        IF negAl_Br.st.err THEN [val |-> Zero, st |-> negAl_Br.st] ELSE
        LET negAr_Bl == NegateSetIn(SetTimesSet(a.right, b.left, negAl_Br.st)) IN
        IF negAr_Bl.st.err THEN [val |-> Zero, st |-> negAr_Bl.st] ELSE
        MultTempL2(key, Al_b.set, Ar_b.set, Bl_a.set, Br_a.set,
                   negAr_Br.set, negAl_Br.set, negAr_Bl.set,
                   SetPlusSetTo(SetPlusSet(Al_b.set, Bl_a.set, negAr_Bl.st),
                                negAl_Bl.set))

SetTimesNum(sur_set, sur_num, st) ==
    IF sur_set = <<>> \/ st.err THEN [set |-> <<>>, st |-> st]
    ELSE LET n == Len(sur_set)
             p == SetTimesNum(SubSeq(sur_set, 1, n - 1), sur_num, st)
         IN  IF p.st.err THEN p
             ELSE LET e == Mult(sur_set[n], sur_num, p.st)
                  IN  IF e.st.err THEN [set |-> <<>>, st |-> e.st]
                      ELSE [set |-> SetInsert(p.set, e.val), st |-> e.st]

SetTimesSetRow(elem1, sur_set2, acc, st) ==
    IF sur_set2 = <<>> \/ st.err THEN [set |-> acc, st |-> st]
    ELSE LET e == Mult(elem1, Head(sur_set2), st)
         IN  IF e.st.err THEN [set |-> <<>>, st |-> e.st]
             ELSE SetTimesSetRow(elem1, Tail(sur_set2), SetInsert(acc, e.val), e.st)

SetTimesSetFrom(sur_set1, sur_set2, acc, st) ==
    IF sur_set1 = <<>> \/ st.err THEN [set |-> acc, st |-> st]
    ELSE LET row == SetTimesSetRow(Head(sur_set1), sur_set2, acc, st)
         IN  SetTimesSetFrom(Tail(sur_set1), sur_set2, row.set, row.st)

SetTimesSet(sur_set1, sur_set2, st) == SetTimesSetFrom(sur_set1, sur_set2, <<>>, st)

(***************************************************************************)
(* Float(): a float is modelled as the dyadic rational num / 2^exp in      *)
(* lowest terms (exp = 0, or num odd).  Every FiniteNumber is a dyadic     *)
(* rational, and at the depths of this model num and 2^exp stay far below  *)
(* the 2^24 at which an IEEE single starts to round.                       *)
(***************************************************************************)
RECURSIVE Pow2(_)
Pow2(n) == IF n = 0 THEN 1 ELSE 2 * Pow2(n - 1)

RECURSIVE FNorm(_, _)
FNorm(num, exp) ==
    IF exp > 0 /\ num % 2 = 0 THEN FNorm(num \div 2, exp - 1)
    ELSE [num |-> num, exp |-> exp]

FInt(n) == [num |-> n, exp |-> 0]

FMaxExp(x, y) == IF x.exp >= y.exp THEN x.exp ELSE y.exp

FScaled(x, e) == x.num * Pow2(e - x.exp)

FPlus(x, y) ==
    LET e == FMaxExp(x, y) IN FNorm(FScaled(x, e) + FScaled(y, e), e)

FMinus(x, y) ==
    LET e == FMaxExp(x, y) IN FNorm(FScaled(x, e) - FScaled(y, e), e)

FHalf(x) == FNorm(x.num, x.exp + 1)

FLess(x, y) ==
    LET e == FMaxExp(x, y) IN FScaled(x, e) < FScaled(y, e)

\* *floatset.rbegin() and *floatset.begin() of a std::set<float>
FGreatest(S) == CHOOSE x \in S : \A y \in S : ~FLess(x, y)

FSmallest(S) == CHOOSE x \in S : \A y \in S : ~FLess(y, x)

RECURSIVE Float(_)
\* a conversion that steps down by 1 from the greatest left element too
FloatStepDown(x) ==
    LET floatset_left == {Float(x.left[i]) : i \in DOMAIN x.left}
        floatset_right == {Float(x.right[i]) : i \in DOMAIN x.right}
    IN  IF floatset_left = {}
        THEN IF floatset_right = {} THEN FInt(0)
             ELSE FMinus(FSmallest(floatset_right), FInt(1))
        ELSE IF floatset_right = {}
             THEN FMinus(FGreatest(floatset_left), FInt(1))
             ELSE FHalf(FPlus(FSmallest(floatset_right), FGreatest(floatset_left)))

Float(x) ==
    LET floatset_left == {Float(x.left[i]) : i \in DOMAIN x.left}
        floatset_right == {Float(x.right[i]) : i \in DOMAIN x.right}
    IN  IF floatset_left = {}
        THEN IF floatset_right = {} THEN FInt(0)
             ELSE FMinus(FSmallest(floatset_right), FInt(1))
        ELSE IF floatset_right = {}
             THEN FPlus(FGreatest(floatset_left), FInt(1))
             ELSE FHalf(FPlus(FSmallest(floatset_right), FGreatest(floatset_left)))

(***************************************************************************)
(* Constructor from a float.  std::floor and std::ceil of num / 2^exp, the *)
(* integer constructor when they agree, else the bisection loop: float_mid *)
(* moves towards the input while sur_mid is rebuilt from the old sur_mid   *)
(* and sur_floor or sur_ceil (its two sets are assigned directly).         *)
(***************************************************************************)
FFloor(x) == x.num \div Pow2(x.exp)

FCeil(x) == -((-x.num) \div Pow2(x.exp))

RECURSIVE FloatLoop(_, _, _, _, _, _)
FloatLoop(input, float_floor, float_ceil, sur_floor, sur_ceil, sur_mid) ==
    LET float_mid == FHalf(FPlus(float_floor, float_ceil))
    IN  IF float_mid = input THEN sur_mid
        ELSE IF FLess(input, float_mid)
             THEN FloatLoop(input, float_floor, float_mid, sur_floor, sur_mid,
                            [left |-> <<sur_floor>>, right |-> <<sur_mid>>])
             ELSE FloatLoop(input, float_mid, float_ceil, sur_mid, sur_ceil,
                            [left |-> <<sur_mid>>, right |-> <<sur_ceil>>])

\* a float constructor that stops at the first midpoint
SurrealFloatFirstMid(input) ==
    LET float_floor == FFloor(input)
        float_ceil == FCeil(input)
    IN  IF float_floor = float_ceil THEN SurrealInt(float_floor)
        ELSE SurrealSets(<<SurrealInt(float_floor)>>, <<SurrealInt(float_ceil)>>, TRUE).val

SurrealFloat(input) ==
    LET float_floor == FFloor(input)
        float_ceil == FCeil(input)
    IN  IF float_floor = float_ceil THEN SurrealInt(float_floor)
        ELSE LET sur_floor == SurrealInt(float_floor)
                 sur_ceil == SurrealInt(float_ceil)
             IN  FloatLoop(input, FInt(float_floor), FInt(float_ceil), sur_floor, sur_ceil,
                           SurrealSets(<<sur_floor>>, <<sur_ceil>>, TRUE).val)

(***************************************************************************)
(* SurrealInf.  An instance is a record of its two sizes (negative: an     *)
(* infinite side), its two generating functions and its two caches (a      *)
(* std::map<int, SurrealInf>, here a function on the cached indices).      *)
(* leftCalls and rightCalls are not fields of the class: they count, per   *)
(* index, the invocations of the instance's generating functions, as a     *)
(* counter captured by the generator would.  A std::function is the record *)
(* of what it computes: "const" returns a copy of the captured instance    *)
(* val, the others are the generators of the demo; "null" is an empty      *)
(* std::function, never invoked on a side of size 0.                       *)
(***************************************************************************)
NoValue == [gen |-> "none"]

NullGen == [gen |-> "null", val |-> NoValue]

ConstGen(x) == [gen |-> "const", val |-> x]

Naturals == [gen |-> "naturals", val |-> NoValue]

NegNaturals == [gen |-> "neg_naturals", val |-> NoValue]

Fracs == [gen |-> "fracs", val |-> NoValue]

\* SurrealInf(leftIn, rightIn, sizes): no check is made
SurrealInfGen(leftIn, rightIn, sizes) ==
    [left |-> leftIn, right |-> rightIn, leftSize |-> sizes[1], rightSize |-> sizes[2],
     leftCache |-> <<>>, rightCache |-> <<>>, leftCalls |-> <<>>, rightCalls |-> <<>>]

RECURSIVE SurrealInfOf(_)
\* a wrapping that takes the first (smallest) element of the left set
SurrealInfOfFirst(inputSur) ==
    SurrealInfGen(
        IF inputSur.left # <<>> THEN ConstGen(SurrealInfOf(inputSur.left[1])) ELSE NullGen,
        IF inputSur.right # <<>> THEN ConstGen(SurrealInfOf(inputSur.right[1])) ELSE NullGen,
        <<IF inputSur.left # <<>> THEN 1 ELSE 0, IF inputSur.right # <<>> THEN 1 ELSE 0>>)

\* SurrealInf(Surreal const&): *left.rbegin() and *right.begin(), wrapped
SurrealInfOf(inputSur) ==
    SurrealInfGen(
        IF inputSur.left # <<>>
        THEN ConstGen(SurrealInfOf(inputSur.left[Len(inputSur.left)])) ELSE NullGen,
        IF inputSur.right # <<>> THEN ConstGen(SurrealInfOf(inputSur.right[1])) ELSE NullGen,
        <<IF inputSur.left # <<>> THEN 1 ELSE 0, IF inputSur.right # <<>> THEN 1 ELSE 0>>)

\* the call left(n) or right(n) of a std::function<SurrealInf(int)>
Generate(g, n) ==
    CASE g.gen = "const" -> g.val
      [] g.gen = "naturals" -> SurrealInfOf(SurrealInt(n))
      [] g.gen = "neg_naturals" -> SurrealInfOf(SurrealInt(-n))
      [] g.gen = "fracs" -> SurrealInfOf(SurrealFloat(FNorm(1, n)))

\* cache[n] = result, and the count of one more invocation at n
Put(cache, n, result) ==
    [i \in DOMAIN cache \cup {n} |-> IF i = n THEN result ELSE cache[i]]

Counted(calls, n) ==
    [i \in DOMAIN calls \cup {n} |->
        IF i = n THEN (IF n \in DOMAIN calls THEN calls[n] + 1 ELSE 1) ELSE calls[i]]

\* getLeft that generates but does not cache
getLeftNoCache(x, n) ==
    IF n \in DOMAIN x.leftCache THEN [val |-> x.leftCache[n], inst |-> x]
    ELSE LET result == Generate(x.left, n)
         IN  [val |-> result,
              inst |-> [x EXCEPT !.leftCalls = Counted(x.leftCalls, n)]]

getLeft(x, n) ==
    IF n \in DOMAIN x.leftCache THEN [val |-> x.leftCache[n], inst |-> x]
    ELSE LET result == Generate(x.left, n)
         IN  [val |-> result,
              inst |-> [x EXCEPT !.leftCache = Put(x.leftCache, n, result),
                                 !.leftCalls = Counted(x.leftCalls, n)]]

getRight(x, n) ==
    IF n \in DOMAIN x.rightCache THEN [val |-> x.rightCache[n], inst |-> x]
    ELSE LET result == Generate(x.right, n)
         IN  [val |-> result,
              inst |-> [x EXCEPT !.rightCache = Put(x.rightCache, n, result),
                                 !.rightCalls = Counted(x.rightCalls, n)]]

(***************************************************************************)
(* Surreal(SurrealInf&), the finite projection.  err is "" or the error    *)
(* thrown, both of them std::runtime_error: "UnboundedSet" for an infinite *)
(* set, "InvalidConstruction" for the throw of the two-set constructor.    *)
(* inst is the instance after the call (its caches are filled even when    *)
(* the call throws); visited lists the instances the recursion entered,    *)
(* each as it was when its call ended.                                     *)
(***************************************************************************)
Failed(e, x, visited) ==
    [err |-> e, val |-> Zero, inst |-> x, visited |-> visited]

RECURSIVE SurrealOfInf(_)
\* Surreal res = Surreal(tempLset, tempRset, true), res being its outcome
SurrealOfInfRes(inst, visited, res) ==
    IF res.err THEN Failed("InvalidConstruction", inst, visited)
    ELSE [err |-> "", val |-> res.val, inst |-> inst, visited |-> visited]

\* the right child tempRfin has been projected (or has thrown: rethrow)
SurrealOfInfRightFin(l, inst, visited, tempRfin) ==
    IF tempRfin.err # "" THEN Failed(tempRfin.err, inst, visited)
    ELSE SurrealOfInfRes(inst, visited, SurrealSets(l.tempLset, <<tempRfin.val>>, TRUE))

SurrealOfInfRightChild(l, inst, tempRfin) ==
    SurrealOfInfRightFin(l, inst, <<inst>> \o l.visited \o tempRfin.visited, tempRfin)

\* tempRinf is what getRight(rightSize - 1) returned
SurrealOfInfRightInf(l, tempRinf) ==
    SurrealOfInfRightChild(l, tempRinf.inst, SurrealOfInf(tempRinf.val))

\* the right side and the construction; l is the outcome of the left side
SurrealOfInfRight(l) ==
    IF l.err # "" THEN Failed(l.err, l.inst, <<l.inst>> \o l.visited)
    ELSE IF l.inst.rightSize > 0
         THEN SurrealOfInfRightInf(l, getRight(l.inst, l.inst.rightSize - 1))
         ELSE SurrealOfInfRes(l.inst, <<l.inst>> \o l.visited,
                              SurrealSets(l.tempLset, <<>>, TRUE))

\* a catch block of the left child that does not rethrow
SurrealOfInfLeftFinSwallow(inst, tempLfin) ==
    [err |-> "",
     tempLset |-> IF tempLfin.err = "" THEN <<tempLfin.val>> ELSE <<>>,
     inst |-> inst, visited |-> tempLfin.visited]

\* the left child tempLfin has been projected (or has thrown: rethrow)
SurrealOfInfLeftFin(inst, tempLfin) ==
    [err |-> tempLfin.err,
     tempLset |-> IF tempLfin.err = "" THEN <<tempLfin.val>> ELSE <<>>,
     inst |-> inst, visited |-> tempLfin.visited]

\* tempLinf is what getLeft(leftSize - 1) returned
SurrealOfInfLeftInf(tempLinf) ==
    SurrealOfInfLeftFin(tempLinf.inst, SurrealOfInf(tempLinf.val))

\* the left side
SurrealOfInfLeft(inputSurInf) ==
    IF inputSurInf.leftSize > 0
    THEN SurrealOfInfLeftInf(getLeft(inputSurInf, inputSurInf.leftSize - 1))
    ELSE [err |-> "", tempLset |-> <<>>, inst |-> inputSurInf, visited |-> <<>>]

\* a projection that tests leftSize only
SurrealOfInfLeftSizeOnly(inputSurInf) ==
    IF inputSurInf.leftSize < 0
    THEN Failed("UnboundedSet", inputSurInf, <<inputSurInf>>)
    ELSE SurrealOfInfRight(SurrealOfInfLeft(inputSurInf))

SurrealOfInf(inputSurInf) ==
    IF inputSurInf.leftSize < 0 \/ inputSurInf.rightSize < 0
    THEN Failed("UnboundedSet", inputSurInf, <<inputSurInf>>)
    ELSE SurrealOfInfRight(SurrealOfInfLeft(inputSurInf))

(***************************************************************************)
(* SurrealInf::Float(): the projection of *this, then Float(); the catch   *)
(* of std::runtime_error returns NAN.                                      *)
(***************************************************************************)
NaN == [num |-> 0, exp |-> -1]

\* a Float() without the catch: the error of the projection leaves it
FloatOfProjectionNoCatch(temp) ==
    [err |-> temp.err, val |-> IF temp.err # "" THEN NaN ELSE Float(temp.val),
     inst |-> temp.inst]

\* temp is the outcome of Surreal temp = Surreal(*this)
FloatOfProjection(temp) ==
    [err |-> "", val |-> IF temp.err # "" THEN NaN ELSE Float(temp.val),
     inst |-> temp.inst]

SurrealInfFloat(x) == FloatOfProjection(SurrealOfInf(x))

(***************************************************************************)
(* SurrealInf::Print(width, depth).  The string is the sequence of its     *)
(* pieces; the piece of a float is the float itself (std::to_string).      *)
(* The terms are fetched with getLeft(i) and getRight(i) on the instance;  *)
(* each term is a copy, printed (depth > 0) or converted with Float().     *)
(***************************************************************************)
Piece(str) == [str |-> str, float |-> FInt(0)]

FloatPiece(f) == [str |-> "float", float |-> f]

RECURSIVE SurrealInfPrint(_, _, _), PrintLeft(_, _, _, _, _), PrintRight(_, _, _, _)

\* one term of a loop: its string, then " ", then the rest of the loop
PrintTerm(term, width, depth, rest) ==
    [str |-> (IF depth > 0 THEN SurrealInfPrint(term, width, depth - 1).str
              ELSE <<FloatPiece(SurrealInfFloat(term).val)>>)
             \o <<Piece(" ")>> \o rest.str,
     inst |-> rest.inst]

PrintLeftTerm(term, from, to, width, depth) ==
    PrintTerm(term.val, width, depth, PrintLeft(term.inst, from + 1, to, width, depth))

\* the loop for (i = from; i < to; i++) over the left terms
PrintLeft(x, from, to, width, depth) ==
    IF from >= to THEN [str |-> <<>>, inst |-> x]
    ELSE PrintLeftTerm(getLeft(x, from), from, to, width, depth)

PrintRightTerm(term, from, width, depth) ==
    PrintTerm(term.val, width, depth, PrintRight(term.inst, from - 1, width, depth))

\* the loop for (i = from; i >= 0; i--) over the right terms
PrintRight(x, from, width, depth) ==
    IF from < 0 THEN [str |-> <<>>, inst |-> x]
    ELSE PrintRightTerm(getRight(x, from), from, width, depth)

\* the whole string, l and r being the two loops as they ended
PrintWhole(l, r, width) ==
    [str |-> <<Piece("{ ")>> \o l.str
             \o (IF l.inst.leftSize < 0 /\ width > 0 THEN <<Piece("... ")>> ELSE <<>>)
             \o <<Piece("| ")>>
             \o (IF l.inst.rightSize < 0 /\ width > 0 THEN <<Piece("... ")>> ELSE <<>>)
             \o r.str \o <<Piece("}")>>,
     inst |-> r.inst]

\* the right half of the string, printed on the instance the left half left
PrintRightHalf(l, width, depth) ==
    PrintWhole(l,
               IF l.inst.rightSize > 0
               THEN PrintRight(l.inst, l.inst.rightSize - 1, width, depth)
               ELSE IF l.inst.rightSize < 0 /\ width > 0
                    THEN PrintRight(l.inst, width - 1, width, depth)
                    ELSE [str |-> <<>>, inst |-> l.inst],
               width)

SurrealInfPrint(x, width, depth) ==
    PrintRightHalf(
        IF x.leftSize > 0 THEN PrintLeft(x, 0, x.leftSize, width, depth)
        ELSE IF x.leftSize < 0 /\ width > 0 THEN PrintLeft(x, 0, width, width, depth)
             ELSE [str |-> <<>>, inst |-> x],
        width, depth)

(***************************************************************************)
(* Operands.  A std::set of at most k numbers drawn from U is an ascending *)
(* sequence of pairwise unequal numbers; the numbers of one more day are   *)
(* the valid pairs of such sets, kept whole (simplify = false).            *)
(***************************************************************************)
SetsOver(U, k) ==
    {s \in UNION {[1..n -> U] : n \in 0..k} :
        \A i \in 1..(Len(s) - 1) : Lt(s[i], s[i + 1])}

Built(U, k) ==
    {SurrealSets(p[1], p[2], FALSE).val :
        p \in {q \in SetsOver(U, k) \X SetsOver(U, k) : ~BadSets(q[1], q[2])}}

Day1 == Built({Zero}, MaxSide)

Day2 == Built(Day1, MaxSide)

One == SurrealInt(1)
MinusOne == SurrealInt(-1)
Two == SurrealInt(2)
Three == SurrealInt(3)
\* { -1 | 1 }, a zero that is not the empty pair
ZeroAlt == SurrealPair(MinusOne, One).val
\* { 0 | 1 } = 1/2 and { 1 | 2 } = 3/2
Half == SurrealPair(Zero, One).val
ThreeHalves == SurrealPair(One, Two).val
\* { -1, 0 | } = 1 and { -1, 0 | 1 } = 1/2, built with simplify = false
ManyLeft == SurrealSets(<<MinusOne, Zero>>, <<>>, FALSE).val
ManyBoth == SurrealSets(<<MinusOne, Zero>>, <<One>>, FALSE).val

MinusHalf == Negate(Half).val

\* the operand sets of a behaviour, the caller's numbers: two neighbouring
\* integers, an integer and its negative, and the hand-built numbers
Pools ==
    {{SurrealInt(i), SurrealInt(i + 1)} : i \in -MaxInt..(MaxInt - 1)}
    \cup {{SurrealInt(i), SurrealInt(-i)} : i \in 1..MaxInt}
    \cup {{MinusOne, Two}, {ThreeHalves, Two, Three}, {ManyLeft, One, Two},
          {ZeroAlt, Half}, {ManyLeft, Half}, {ManyBoth, MinusHalf},
          {ManyBoth, ZeroAlt}}

(***************************************************************************)
(* State machine of the arithmetic engine: the two tables, the operands    *)
(* the caller holds, and the last call with its arguments and its result.  *)
(***************************************************************************)
Tables == [add |-> AddLookup, mult |-> MultLookup, err |-> FALSE]

NoCall == [op |-> "none"]

\* no TransfiniteNumber has been constructed
NoInstance == [kind |-> "none"]

Init ==
    /\ AddLookup = <<>>
    /\ MultLookup = <<>>
    /\ last = NoCall
    /\ nops = 0
    /\ pool \in Pools
    /\ inf = NoInstance

Call(op, a, b, r) ==
    /\ AddLookup' = r.st.add
    /\ MultLookup' = r.st.mult
    /\ last' = [op |-> op, a |-> a, b |-> b, val |-> r.val, err |-> r.st.err,
                raw |-> IF ~r.st.err /\ Find(IF op = "add" THEN AddLookup ELSE MultLookup,
                                             MinMax(a, b)) = 0
                        THEN r.raw ELSE NoRaw]
    /\ nops' = nops + 1
    /\ UNCHANGED <<pool, inf>>

DoAdd(a, b) == nops < MaxOps /\ Call("add", a, b, Add(a, b, Tables))


DoMult(a, b) == nops < MaxOps /\ Call("mult", a, b, Mult(a, b, Tables))

Next ==
    \/ \E a, b \in pool : DoAdd(a, b)
    \/ \E a, b \in pool : DoMult(a, b)

Spec == Init /\ [][Next]_vars

(***************************************************************************)
(* State machine of the pure operations: the constructors and the          *)
(* comparator.  A behaviour is one call: Init draws the call and its       *)
(* arguments (hand-built numbers), the action runs it and records what it  *)
(* returns.  The tables stay empty.                                        *)
(***************************************************************************)
Numbers == Day2 \cup UNION Pools

\* the numbers put into the sets handed to the two-set constructor
Elems == Day1 \cup {ZeroAlt, Half, Two, SurrealInt(-2), ManyLeft, ManyBoth}

\* the integers handed to the integer constructor: -5..5 at MaxInt = 2
IntRange == -(MaxInt + 3)..(MaxInt + 3)

\* the floats handed to the float constructor: the multiples of 2^-MaxExp
\* between -(MaxInt + 1) and MaxInt + 1
Dyadics ==
    {FNorm(k, MaxExp) : k \in -((MaxInt + 1) * Pow2(MaxExp))..((MaxInt + 1) * Pow2(MaxExp))}

\* { 0 | 3 } and { -2 | }, built by hand
ZeroThree == SurrealPair(Zero, Three).val

BelowMinusTwo == SurrealSets(<<SurrealInt(-2)>>, <<>>, FALSE).val

FloatOperands == Numbers \cup {ZeroThree, BelowMinusTwo}

PureCalls ==
    {[op |-> "sets", done |-> FALSE, leftIn |-> l, rightIn |-> r, simplify |-> f] :
        l \in SetsOver(Elems, MaxSetLen), r \in SetsOver(Elems, MaxSetLen),
        f \in BOOLEAN}
    \cup {[op |-> "pair", done |-> FALSE, a |-> x, b |-> y] : x \in Numbers, y \in Numbers}
    \cup {[op |-> "cmp", done |-> FALSE, a |-> x, b |-> y, c |-> z] :
            x \in Numbers, y \in Numbers, z \in Numbers}
    \cup {[op |-> "int", done |-> FALSE, input |-> n] : n \in IntRange}
    \cup {[op |-> "float", done |-> FALSE, value |-> x] : x \in Dyadics}
    \cup {[op |-> "tofloat", done |-> FALSE, a |-> x] : x \in Numbers}
    \cup {[op |-> "neg", done |-> FALSE, a |-> x] : x \in Numbers}
    \cup {[op |-> "floatcmp", done |-> FALSE, a |-> x, b |-> y] :
                x \in FloatOperands, y \in FloatOperands}

InitPure ==
    /\ AddLookup = <<>>
    /\ MultLookup = <<>>
    /\ last \in PureCalls
    /\ nops = 0
    /\ pool = {}
    /\ inf = NoInstance

ConstructSets ==
    /\ last.op = "sets" /\ ~last.done
    /\ LET r == SurrealSets(last.leftIn, last.rightIn, last.simplify)
       IN  last' = [op |-> "sets", done |-> TRUE, leftIn |-> last.leftIn,
                    rightIn |-> last.rightIn, simplify |-> last.simplify,
                    err |-> r.err, val |-> r.val]
    /\ UNCHANGED <<AddLookup, MultLookup, nops, pool, inf>>

ConstructPair ==
    /\ last.op = "pair" /\ ~last.done
    /\ LET r == SurrealPair(last.a, last.b)
       IN  last' = [op |-> "pair", done |-> TRUE, a |-> last.a, b |-> last.b,
                    err |-> r.err, val |-> r.val]
    /\ UNCHANGED <<AddLookup, MultLookup, nops, pool, inf>>

Compare ==
    /\ last.op = "cmp" /\ ~last.done
    /\ LET a == last.a
           b == last.b
           c == last.c
       IN  last' = [op |-> "cmp", done |-> TRUE, a |-> a, b |-> b, c |-> c,
                    le_aa |-> Le(a, a), le_ab |-> Le(a, b), le_ba |-> Le(b, a),
                    le_bc |-> Le(b, c), le_ac |-> Le(a, c),
                    lt_ab |-> Lt(a, b), eq_ab |-> Eq(a, b), gt_ab |-> Gt(a, b),
                    ge_ab |-> Ge(a, b), neq_ab |-> Neq(a, b)]
    /\ UNCHANGED <<AddLookup, MultLookup, nops, pool, inf>>

\* Surreal(int), then Depth() and Float() of the number it built
ConstructInt ==
    /\ last.op = "int" /\ ~last.done
    /\ LET res == SurrealInt(last.input)
       IN  last' = [op |-> "int", done |-> TRUE, input |-> last.input,
                    val |-> res, depth |-> Depth(res), float |-> Float(res)]
    /\ UNCHANGED <<AddLookup, MultLookup, nops, pool, inf>>

\* Surreal(float), then Float() of the number it built
ConstructFloat ==
    /\ last.op = "float" /\ ~last.done
    /\ LET res == SurrealFloat(last.value)
       IN  last' = [op |-> "float", done |-> TRUE, value |-> last.value,
                    val |-> res, float |-> Float(res)]
    /\ UNCHANGED <<AddLookup, MultLookup, nops, pool, inf>>

\* Float() of a hand-built number
CallFloat ==
    /\ last.op = "tofloat" /\ ~last.done
    /\ last' = [op |-> "tofloat", done |-> TRUE, a |-> last.a, float |-> Float(last.a)]
    /\ UNCHANGED <<AddLookup, MultLookup, nops, pool, inf>>

\* a == b and a < b, and Float() of both
CompareFloats ==
    /\ last.op = "floatcmp" /\ ~last.done
    /\ last' = [op |-> "floatcmp", done |-> TRUE, a |-> last.a, b |-> last.b,
                eq_ab |-> Eq(last.a, last.b), lt_ab |-> Lt(last.a, last.b),
                float_a |-> Float(last.a), float_b |-> Float(last.b)]
    /\ UNCHANGED <<AddLookup, MultLookup, nops, pool, inf>>

\* unary operator-
CallNegate ==
    /\ last.op = "neg" /\ ~last.done
    /\ LET r == Negate(last.a)
       IN  last' = [op |-> "neg", done |-> TRUE, a |-> last.a, err |-> r.err, val |-> r.val]
    /\ UNCHANGED <<AddLookup, MultLookup, nops, pool, inf>>

NextPure ==
    \/ CallNegate
    \/ ConstructSets
    \/ ConstructPair
    \/ Compare
    \/ ConstructInt
    \/ ConstructFloat
    \/ CallFloat
    \/ CompareFloats

SpecPure == InitPure /\ [][NextPure]_vars

(***************************************************************************)
(* Claims about the constructors and the comparator (SpecPure).            *)
(***************************************************************************)
SetsDone == last.op = "sets" /\ last.done
PairDone == last.op = "pair" /\ last.done
CmpDone == last.op = "cmp" /\ last.done
IntDone == last.op = "int" /\ last.done
FloatDone == last.op = "float" /\ last.done
ToFloatDone == last.op = "tofloat" /\ last.done
NegDone == last.op = "neg" /\ last.done

\* C1: the two-set constructor throws exactly when some element of the right
\* set is <= some element of the left set, and the two-number constructor
\* throws exactly when its left argument is not < its right argument; a
\* construction that does not throw yields a number.
C1_ConstructionFailsIffInvalid ==
    /\ SetsDone =>
         (last.err <=> \E j \in DOMAIN last.rightIn : \E i \in DOMAIN last.leftIn :
                           Le(last.rightIn[j], last.leftIn[i]))
    /\ PairDone =>
         /\ last.err <=> ~Lt(last.a, last.b)
         /\ ~last.err => last.val = [left |-> <<last.a>>, right |-> <<last.b>>]

\* left = {1}, right = {0} has been rejected
C1_Witness ==
    /\ SetsDone /\ last.leftIn = <<One>> /\ last.rightIn = <<Zero>> /\ last.err

\* C2: a construction with simplify = true keeps only the greatest element
\* of the left set and the smallest element of the right set, and the number
\* it builds equals (a <= b and b <= a) the number built from the same sets
\* with the other value of the flag.
C2_SimplifyKeepsClass ==
    (SetsDone /\ ~last.err) =>
        LET other == SurrealSets(last.leftIn, last.rightIn, ~last.simplify)
        IN  /\ ~other.err
            /\ Le(last.val, other.val) /\ Le(other.val, last.val)
            /\ last.simplify =>
                 /\ Len(last.val.left) <= 1 /\ Len(last.val.right) <= 1
                 /\ \A i \in DOMAIN last.leftIn : Le(last.leftIn[i], last.val.left[1])
                 /\ \A j \in DOMAIN last.rightIn : Le(last.val.right[1], last.rightIn[j])

\* a simplified construction from two sets of two elements each
C2_Witness ==
    /\ SetsDone /\ ~last.err /\ last.simplify
    /\ Len(last.leftIn) = 2 /\ Len(last.rightIn) = 2

\* C3: on validly constructed numbers <= is reflexive, total and transitive,
\* and exactly one of a < b, a == b, a > b holds.
C3_TotalOrder ==
    CmpDone =>
        /\ last.le_aa
        /\ last.le_ab \/ last.le_ba
        /\ (last.le_ab /\ last.le_bc) => last.le_ac
        /\ \/ last.lt_ab /\ ~last.eq_ab /\ ~last.gt_ab
           \/ ~last.lt_ab /\ last.eq_ab /\ ~last.gt_ab
           \/ ~last.lt_ab /\ ~last.eq_ab /\ last.gt_ab

\* three numbers of different structure compared, two of them equal: the
\* zero { -1 | 1 } against { | } and against 1/2
C3_Witness ==
    /\ CmpDone /\ last.a = ZeroAlt /\ last.b = Zero /\ last.c = Half
    /\ last.eq_ab /\ last.le_bc /\ last.le_ac

\* zero nested n times on the left (onLeft) or on the right
RECURSIVE Nested(_, _)
Nested(n, onLeft) ==
    IF n = 0 THEN [left |-> <<>>, right |-> <<>>]
    ELSE IF onLeft THEN [left |-> <<Nested(n - 1, TRUE)>>, right |-> <<>>]
         ELSE [left |-> <<>>, right |-> <<Nested(n - 1, FALSE)>>]

Abs(n) == IF n < 0 THEN -n ELSE n

\* C11: the number the integer constructor builds from n is the empty pair
\* nested |n| times, on the left for n > 0 and on the right for n < 0, and
\* its Depth is |n|.
C11_IntegerIsNestedZero ==
    IntDone =>
        /\ last.val = Nested(Abs(last.input), last.input > 0)
        /\ last.depth = Abs(last.input)

\* the constructor has been given 2 and has built { { { | } | } | }
C11_Witness ==
    /\ IntDone /\ last.input = 2 /\ last.depth = 2
    /\ last.val = [left |-> <<[left |-> <<Zero>>, right |-> <<>>]>>, right |-> <<>>]

\* C12: Float() of the number the integer constructor builds from n is n.
C12_FloatOfInteger ==
    IntDone => last.float = FInt(last.input)

\* the float of the number built from -(MaxInt + 3) is an integer below -4
C12_Witness ==
    /\ IntDone /\ last.input = -(MaxInt + 3)
    /\ last.float.exp = 0 /\ last.float.num < -4

\* C13: Float() of the number the float constructor builds from a dyadic
\* rational x is x, for positive and negative x, and Float() of the number
\* built from left = {0}, right = {1} is 1/2.
C13_FloatRoundTrip ==
    /\ FloatDone => last.float = last.value
    /\ (ToFloatDone /\ last.a = SurrealSets(<<SurrealInt(0)>>, <<SurrealInt(1)>>, TRUE).val)
         => last.float = [num |-> 1, exp |-> 1]

\* the constructor has been given 0.375 = 3/8 and has built { 1/4 | 1/2 }
C13_Witness ==
    /\ FloatDone /\ last.value = [num |-> 3, exp |-> 3]
    /\ last.val = [left |-> <<[left |-> <<Zero>>, right |-> <<Half>>]>>, right |-> <<Half>>]
    /\ last.float = [num |-> 3, exp |-> 3]

(***************************************************************************)
(* Claims about the arithmetic engine (Spec).  A claim about the calls a   *)
(* caller may make next is stated on the tables of the current state: the  *)
(* call is evaluated from Tables.                                          *)
(***************************************************************************)
SmallInts == {SurrealInt(i) : i \in -(MaxInt + 1)..(MaxInt + 1)}

Returned(op) == last.op = op /\ ~last.err

\* C4: in every reachable state of the tables and for all operands a, b the
\* caller holds, a+b and b+a complete and are equal, a + zero equals a, and
\* a + (-a) equals zero (under the comparator).
C4_AdditionLaws ==
    /\ \A a, b \in pool :
         LET ab == Add(a, b, Tables)
             ba == Add(b, a, Tables)
         IN  ~ab.st.err /\ ~ba.st.err /\ Eq(ab.val, ba.val)
    /\ \A a \in pool :
         LET az == Add(a, Zero, Tables)
             na == Negate(a)
             inv == Add(a, na.val, Tables)
             dif == Sub(a, a, Tables)
         IN  /\ ~az.st.err /\ Eq(az.val, a)
             /\ ~na.err /\ ~inv.st.err /\ Eq(inv.val, Zero)
             /\ ~dif.st.err /\ Eq(dif.val, Zero)

\* the many-element number { -1, 0 | 1 } and its negative { -1 | 0 } have
\* been added, after an earlier call filled the tables, and the sum is zero
C4_Witness ==
    /\ Returned("add") /\ last.a = ManyBoth /\ last.b = Negate(ManyBoth).val
    /\ last.val = Zero /\ nops = 2

\* C5: in every reachable state of the tables and for every operand a the
\* caller holds, a * zero completes and equals zero and a * one completes and
\* equals a, with zero = { | } and one = { zero | }.
C5_MultiplicationLaws ==
    \A a \in pool :
        LET az == Mult(a, Zero, Tables)
            a1 == Mult(a, SurrealSets(<<Zero>>, <<>>, TRUE).val, Tables)
        IN  /\ ~az.st.err /\ Eq(az.val, Zero)
            /\ ~a1.st.err /\ Eq(a1.val, a)

\* C6: a product of two small integers that returns is the integer m*n: it
\* equals FiniteNumber(m*n) under the comparator and its Float() is m*n,
\* whatever calls came before.
C6_IntegerProduct ==
    \A m, n \in -(MaxInt + 1)..(MaxInt + 1) :
        (last.op = "mult" /\ last.a = SurrealInt(m) /\ last.b = SurrealInt(n)) =>
            /\ ~last.err
            /\ Eq(last.val, SurrealInt(m * n))
            /\ Float(last.val) = FInt(m * n)

\* C7: for integer operands a, b, c, once a+b has returned, (a+b)+c equals
\* a+(b+c), whichever of the two is evaluated (and memoized) first.
C7_Associativity ==
    (Returned("add") /\ last.a \in SmallInts /\ last.b \in SmallInts) =>
        \A c \in SmallInts :
            LET lhs == Add(last.val, c, Tables)
                bc == Add(last.b, c, lhs.st)
                rhs == Add(last.a, bc.val, bc.st)
                bc2 == Add(last.b, c, Tables)
                rhs2 == Add(last.a, bc2.val, bc2.st)
                lhs2 == Add(last.val, c, rhs2.st)
            IN  /\ ~rhs.st.err /\ Eq(lhs.val, rhs.val)
                /\ ~lhs2.st.err /\ Eq(lhs2.val, rhs2.val)

\* 1 + 2 has returned 3, so that (1+2)+3 and 1+(2+3) are compared
C7_Witness ==
    /\ Returned("add") /\ last.a = One /\ last.b = Two /\ Eq(last.val, Three)
    /\ Three \in SmallInts

\* C8: the memo key does not depend on the order of the operands: whenever
\* the pair (a, b) is in a table, the call with the operands swapped finds
\* the same entry, returns exactly its stored value and changes neither
\* table; and a call a+b or a*b that returned has left its pair in the table.
C8_KeyOrderIndependent ==
    /\ \A a, b \in pool :
         LET i == Find(AddLookup, MinMax(a, b))
             j == Find(MultLookup, MinMax(a, b))
         IN  /\ i # 0 =>
                  /\ Find(AddLookup, MinMax(b, a)) = i
                  /\ Add(b, a, Tables) = [val |-> AddLookup[i].val, st |-> Tables]
             /\ j # 0 =>
                  /\ Find(MultLookup, MinMax(b, a)) = j
                  /\ Mult(b, a, Tables) = [val |-> MultLookup[j].val, st |-> Tables]
    /\ Returned("add") =>
         /\ Find(AddLookup, MinMax(last.a, last.b)) # 0
         /\ Add(last.b, last.a, Tables) = [val |-> last.val, st |-> Tables]
    /\ Returned("mult") =>
         /\ Find(MultLookup, MinMax(last.a, last.b)) # 0
         /\ Mult(last.b, last.a, Tables) = [val |-> last.val, st |-> Tables]

\* 3 * 2 has returned, its operands in descending order, so that 2 * 3 is the
\* call with the operands swapped
C8_Witness ==
    /\ Returned("mult") /\ last.a = Three /\ last.b = Two
    /\ Find(MultLookup, MinMax(Two, Three)) # 0

\* C9: a call never removes a key from a table nor makes a table shorter, and
\* it changes the value stored under a key only to a value that equals the
\* old one under the comparator and has strictly fewer elements.
Grows(old, new) ==
    /\ Len(new) >= Len(old)
    /\ \A i \in DOMAIN old : \E j \in DOMAIN new :
         /\ new[j].key = old[i].key
         /\ \/ new[j].val = old[i].val
            \/ Eq(new[j].val, old[i].val) /\ Size(new[j].val) < Size(old[i].val)

C9_TablesGrow ==
    [][Grows(AddLookup, AddLookup') /\ Grows(MultLookup, MultLookup')]_vars

\* the entry of 3/2 * 2, first stored as { 5/2 | 7/2 }, holds { 2 | } after a
\* later call has rewritten it in place
C9_Witness ==
    \E i \in DOMAIN MultLookup :
        /\ MultLookup[i].key = <<ThreeHalves, Two>>
        /\ MultLookup[i].val = Three

\* C10: a returned sum (product) has no more elements than any value equal to
\* it that the addition (multiplication) table holds when the call returns,
\* and a result equal to zero is the empty pair { | }.
C10_SimplestStored ==
    /\ Returned("add") =>
         /\ \A i \in DOMAIN AddLookup :
              Eq(AddLookup[i].val, last.val) => Size(last.val) <= Size(AddLookup[i].val)
         /\ Eq(last.val, Zero) => last.val = Zero
    /\ Returned("mult") =>
         /\ \A i \in DOMAIN MultLookup :
              Eq(MultLookup[i].val, last.val) => Size(last.val) <= Size(MultLookup[i].val)
         /\ Eq(last.val, Zero) => last.val = Zero

\* 1 + (-1), whose raw result is { -1 | 1 }, has returned { | }
C10_Witness ==
    /\ Returned("add") /\ last.a = One /\ last.b = MinusOne /\ last.val = Zero

(***************************************************************************)
(* State machine of one SurrealInf instance: the caller constructs it      *)
(* (Init) and then calls getLeft, getRight, the finite projection, Float() *)
(* and Print() on it; inf.obj is the instance with its caches, last the    *)
(* last call and what it returned.  The instances are those of the demo    *)
(* (omega, its negative, epsilon, omega + 1), the wrapped finite numbers,  *)
(* a finite set of naturals, and instances whose generators break the      *)
(* trusted order right > left.                                             *)
(***************************************************************************)
Omega == SurrealInfGen(Naturals, NullGen, <<-1, 0>>)

NegOmega == SurrealInfGen(NullGen, NegNaturals, <<0, -1>>)

Epsilon == SurrealInfGen(NullGen, Fracs, <<0, -1>>)

OmegaPlusOne == SurrealInfGen(ConstGen(Omega), NullGen, <<1, 0>>)

\* { 0, 1, .., MaxWidth | }
NaturalsUpTo == SurrealInfGen(Naturals, NullGen, <<MaxWidth + 1, 0>>)

\* { | -omega } and { 1 | omega }: an infinite set below the top
BelowNegOmega == SurrealInfGen(NullGen, ConstGen(NegOmega), <<0, 1>>)

OneToOmega == SurrealInfGen(ConstGen(SurrealInfOf(One)), ConstGen(Omega), <<1, 1>>)

\* { 1 | 0 }, { 0, 1 | 0 } and numbers that hold { 1 | 0 }
Crossed == SurrealInfGen(ConstGen(SurrealInfOf(One)), ConstGen(SurrealInfOf(Zero)), <<1, 1>>)

CrossedNaturals == SurrealInfGen(Naturals, Naturals, <<2, 1>>)

AboveCrossed == SurrealInfGen(ConstGen(Crossed), NullGen, <<1, 0>>)

CrossedToOmega == SurrealInfGen(ConstGen(Crossed), ConstGen(Omega), <<1, 1>>)

Instances ==
    {[name |-> "wrap", src |-> s, obj |-> SurrealInfOf(s)] : s \in Numbers}
    \cup {[name |-> "generators", src |-> Zero, obj |-> x] :
            x \in {Omega, NegOmega, Epsilon, OmegaPlusOne, NaturalsUpTo, BelowNegOmega,
                   OneToOmega, Crossed, CrossedNaturals, AboveCrossed, CrossedToOmega}}

InitInf ==
    /\ AddLookup = <<>>
    /\ MultLookup = <<>>
    /\ last = NoCall
    /\ nops = 0
    /\ pool = {}
    /\ inf \in Instances

\* a call on the instance has returned r.val or thrown r.err; hit tells
\* whether a getLeft or getRight found its index in the cache
CallInf(op, n, depth, hit, r) ==
    /\ nops < MaxOps
    /\ inf' = [inf EXCEPT !.obj = r.inst]
    /\ last' = [op |-> op, n |-> n, depth |-> depth, hit |-> hit, err |-> r.err, val |-> r.val]
    /\ nops' = nops + 1
    /\ UNCHANGED <<AddLookup, MultLookup, pool>>

\* the caller asks for an index the side has
DoGetLeft(n) ==
    /\ inf.obj.leftSize < 0 \/ n < inf.obj.leftSize
    /\ LET r == getLeft(inf.obj, n)
       IN  CallInf("getLeft", n, 0, n \in DOMAIN inf.obj.leftCache, [err |-> "", val |-> r.val, inst |-> r.inst])

DoGetRight(n) ==
    /\ inf.obj.rightSize < 0 \/ n < inf.obj.rightSize
    /\ LET r == getRight(inf.obj, n)
       IN  CallInf("getRight", n, 0, n \in DOMAIN inf.obj.rightCache, [err |-> "", val |-> r.val, inst |-> r.inst])

DoProject ==
    LET r == SurrealOfInf(inf.obj)
    IN  CallInf("Surreal", 0, 0, FALSE,
                [err |-> r.err, val |-> [sur |-> r.val, visited |-> r.visited],
                 inst |-> r.inst])

DoFloat == CallInf("Float", 0, 0, FALSE, SurrealInfFloat(inf.obj))

DoPrint(width, depth) ==
    LET r == SurrealInfPrint(inf.obj, width, depth)
    IN  CallInf("Print", width, depth, FALSE, [err |-> "", val |-> r.str, inst |-> r.inst])

NextInf ==
    \/ \E n \in 0..MaxWidth : DoGetLeft(n)
    \/ \E n \in 0..MaxWidth : DoGetRight(n)
    \/ DoProject
    \/ DoFloat
    \/ \E width \in 0..MaxWidth, depth \in 0..1 : DoPrint(width, depth)

SpecInf == InitInf /\ [][NextInf]_vars

(***************************************************************************)
(* Claims about SurrealInf (SpecInf).                                      *)
(***************************************************************************)
Ended(op) == last.op = op

\* C14: the projection of a wrapped finite number throws nothing and yields
\* a number equal to the wrapped one under the comparator.
C14_WrapThenProject ==
    (Ended("Surreal") /\ inf.name = "wrap") =>
        /\ last.err = ""
        /\ Eq(last.val.sur, inf.src)

\* { -1, 0 | 1 } has been wrapped and projected to { 0 | 1 }
C14_Witness ==
    /\ Ended("Surreal") /\ inf.name = "wrap" /\ inf.src = ManyBoth
    /\ last.err = "" /\ last.val.sur = Half

\* C15: on one instance each generating function is invoked at most once
\* per index: an index is in a cache exactly when its generator has been
\* invoked for it, once, and getLeft(n) and getRight(n) return the cached
\* value; a call that found n in the cache has not invoked the generator.
C15_GeneratedOncePerIndex ==
    /\ DOMAIN inf.obj.leftCalls = DOMAIN inf.obj.leftCache
    /\ DOMAIN inf.obj.rightCalls = DOMAIN inf.obj.rightCache
    /\ \A n \in DOMAIN inf.obj.leftCalls : inf.obj.leftCalls[n] = 1
    /\ \A n \in DOMAIN inf.obj.rightCalls : inf.obj.rightCalls[n] = 1
    /\ Ended("getLeft") => last.val = inf.obj.leftCache[last.n]
    /\ Ended("getRight") => last.val = inf.obj.rightCache[last.n]

\* getLeft(1) on omega has returned the cached 1 that an earlier call
\* generated
C15_Witness ==
    /\ Ended("getLeft") /\ last.hit /\ last.n = 1 /\ inf.obj = [Omega EXCEPT
           !.leftCache = inf.obj.leftCache, !.leftCalls = inf.obj.leftCalls]
    /\ last.val = SurrealInfOf(One) /\ inf.obj.leftCalls[1] = 1

Unbounded(x) == x.leftSize < 0 \/ x.rightSize < 0

\* C16: a projection that enters an instance with a negative leftSize or
\* rightSize, the projected instance or one reached in the descent, ends in
\* UnboundedSet, and it invokes no generator of such an instance: the
\* projected instance is left as it was, an instance reached in the descent
\* (a fresh copy) has no invocation.
C16_UnboundedSetFails ==
    [][(nops' = nops + 1 /\ last'.op = "Surreal") =>
          /\ Unbounded(inf.obj) => (last'.err = "UnboundedSet" /\ inf'.obj = inf.obj)
          /\ \A i \in DOMAIN last'.val.visited :
                Unbounded(last'.val.visited[i]) =>
                    /\ last'.err = "UnboundedSet"
                    /\ i > 1 => /\ last'.val.visited[i].leftCalls = <<>>
                                /\ last'.val.visited[i].rightCalls = <<>>]_vars

\* the projection of { 1 | omega } has projected 1, reached omega on the
\* right and failed
C16_Witness ==
    /\ Ended("Surreal") /\ last.err = "UnboundedSet"
    /\ inf.obj.left = OneToOmega.left /\ inf.obj.right = OneToOmega.right
    /\ Len(last.val.visited) > 2
    /\ last.val.visited[Len(last.val.visited)] = Omega

\* C17: Float() of a SurrealInf throws nothing; it returns NaN when the
\* projection of the instance fails with UnboundedSet, and Float() of the
\* projected number when the projection succeeds.
C17_FloatNeverThrows ==
    Ended("Float") =>
        /\ last.err = ""
        /\ SurrealOfInf(inf.obj).err = "UnboundedSet" => last.val = NaN
        /\ SurrealOfInf(inf.obj).err = "" => last.val = Float(SurrealOfInf(inf.obj).val)

\* Float() of omega + 1 has returned NaN after the descent into omega failed
C17_Witness ==
    /\ Ended("Float") /\ last.val = NaN /\ last.err = ""
    /\ inf.obj.left = OmegaPlusOne.left /\ inf.obj.leftSize = 1
    /\ inf.obj.leftCache = [n \in {0} |-> Omega]

\* the instance of the behaviour was constructed as x
Is(x) ==
    /\ inf.obj.left = x.left /\ inf.obj.right = x.right
    /\ inf.obj.leftSize = x.leftSize /\ inf.obj.rightSize = x.rightSize

\* the instances whose projection constructs a number with right <= left, at
\* the top or in a left child
BreaksOrder == \E x \in {Crossed, CrossedNaturals, AboveCrossed, CrossedToOmega} : Is(x)

\* C18 as stated: every operation on a SurrealInf in which a construction
\* violates right > left ends in InvalidConstruction: the projection,
\* Float() and Print().
C18_AlwaysPropagated ==
    /\ (Ended("Surreal") /\ BreaksOrder) => last.err = "InvalidConstruction"
    /\ (Ended("Float") /\ SurrealOfInf(inf.obj).err = "InvalidConstruction")
         => last.err = "InvalidConstruction"
    /\ (Ended("Print") /\ last.depth = 0 /\ Is(AboveCrossed))
         => last.err = "InvalidConstruction"

\* C18: the projection of a SurrealInf in which a construction violates
\* right > left ends in InvalidConstruction, at the top or in a child;
\* Float() of such an instance catches the error and returns NaN, and
\* Print() at depth 0 shows NaN for a term whose projection fails so.
C18_PropagatedExceptByFloat ==
    /\ (Ended("Surreal") /\ BreaksOrder) => last.err = "InvalidConstruction"
    /\ (Ended("Float") /\ SurrealOfInf(inf.obj).err = "InvalidConstruction")
         => (last.err = "" /\ last.val = NaN)
    /\ (Ended("Print") /\ last.depth = 0 /\ Is(AboveCrossed))
         => /\ last.err = ""
            /\ last.val = <<Piece("{ "), FloatPiece(NaN), Piece(" "), Piece("| "), Piece("}")>>

\* Float() of { 0, 1 | 0 } has returned NaN: the projection fetched 1 and 0
\* and the construction from {1} and {0} threw
C18_Witness ==
    /\ Ended("Float") /\ Is(CrossedNaturals) /\ last.val = NaN /\ last.err = ""
    /\ DOMAIN inf.obj.leftCache = {1} /\ DOMAIN inf.obj.rightCache = {0}

(***************************************************************************)
(* Claims about the construction of raw results and about negation.        *)
(***************************************************************************)
\* C19 as stated: the raw result of a call that missed the table holds every
\* element of the two unions it was constructed from.
C19_RawKeepsEveryElement ==
    ((Returned("add") \/ Returned("mult")) /\ last.raw.miss) =>
        /\ last.raw.res.left = last.raw.left
        /\ last.raw.res.right = last.raw.right

\* C19: the raw result of a call that missed the table is constructed with
\* simplify = true: its left set holds only the greatest element of the left
\* union and its right set only the smallest element of the right union.
C19_RawIsSimplified ==
    ((Returned("add") \/ Returned("mult")) /\ last.raw.miss) =>
        /\ last.raw.res.left =
             (IF last.raw.left = <<>> THEN <<>> ELSE <<last.raw.left[Len(last.raw.left)]>>)
        /\ last.raw.res.right =
             (IF last.raw.right = <<>> THEN <<>> ELSE <<last.raw.right[1]>>)

\* 3/2 + 2 has missed the table; the left union is { 5/2, 3 } and the raw
\* result keeps 3 only
C19_Witness ==
    /\ Returned("add") /\ last.a = ThreeHalves /\ last.b = Two /\ last.raw.miss
    /\ Len(last.raw.left) = 2 /\ last.raw.left[2] = Three
    /\ last.raw.res.left = <<Three>>

\* the negations of all elements of a set, each as operator- returns it
NegationsOf(sur_set) == {Negate(sur_set[i]).val : i \in DOMAIN sur_set}

Range(sur_set) == {sur_set[i] : i \in DOMAIN sur_set}

\* C20 as stated: the left set of -a is the set of the negations of all
\* elements of a.right, and the right set of -a is the set of the negations
\* of all elements of a.left.
C20_NegationKeepsEveryElement ==
    NegDone =>
        /\ ~last.err
        /\ Range(last.val.left) = NegationsOf(last.a.right)
        /\ Range(last.val.right) = NegationsOf(last.a.left)

\* C20: -a throws nothing and is constructed with simplify = true from the
\* negations of the elements of a.right (left) and of a.left (right): its
\* left set holds only the greatest negation of an element of a.right, its
\* right set only the smallest negation of an element of a.left; a side is
\* empty exactly when the other side of a is.
C20_NegationSwapsAndSimplifies ==
    NegDone =>
        /\ ~last.err
        /\ Len(last.val.left) = (IF last.a.right = <<>> THEN 0 ELSE 1)
        /\ Len(last.val.right) = (IF last.a.left = <<>> THEN 0 ELSE 1)
        /\ Range(last.val.left) \subseteq NegationsOf(last.a.right)
        /\ Range(last.val.right) \subseteq NegationsOf(last.a.left)
        /\ \A x \in NegationsOf(last.a.right) : Le(x, last.val.left[1])
        /\ \A x \in NegationsOf(last.a.left) : Le(last.val.right[1], x)

\* { -1, 0 | 1 } has been negated to { -1 | 0 }: of the negations 1 and 0 of
\* its left elements only the smallest is kept
C20_Witness ==
    /\ NegDone /\ last.a = ManyBoth /\ ~last.err
    /\ last.val = [left |-> <<MinusOne>>, right |-> <<Zero>>]

(***************************************************************************)
(* State machine of the float constructor, one step per pass of its loop.  *)
(* last holds the locals of the constructor: the three floats, the three   *)
(* numbers, and the count of passes made (iters, not a variable of the     *)
(* code).  The constructor is sequential code: once called it runs on,     *)
(* hence the weak fairness of its steps.                                   *)
(***************************************************************************)
FloatCtorCalls ==
    {[op |-> "floatctor", pc |-> "start", input |-> x,
      float_floor |-> FInt(0), float_ceil |-> FInt(0), float_mid |-> FInt(0),
      sur_floor |-> Zero, sur_ceil |-> Zero, sur_mid |-> Zero, iters |-> 0] : x \in Dyadics}

InitFloatCtor ==
    /\ AddLookup = <<>>
    /\ MultLookup = <<>>
    /\ last \in FloatCtorCalls
    /\ nops = 0
    /\ pool = {}
    /\ inf = NoInstance

\* floor and ceil; the integer constructor when they agree, else the first
\* midpoint and its number
FloatCtorEnter ==
    /\ last.pc = "start"
    /\ LET float_floor == FFloor(last.input)
           float_ceil == FCeil(last.input)
       IN  IF float_floor = float_ceil
           THEN last' = [last EXCEPT !.pc = "done", !.sur_mid = SurrealInt(float_floor),
                                     !.float_floor = FInt(float_floor),
                                     !.float_ceil = FInt(float_ceil),
                                     !.float_mid = FInt(float_floor)]
           ELSE last' = [last EXCEPT
                    !.pc = "loop",
                    !.float_floor = FInt(float_floor),
                    !.float_ceil = FInt(float_ceil),
                    !.float_mid = FHalf(FPlus(FInt(float_floor), FInt(float_ceil))),
                    !.sur_floor = SurrealInt(float_floor),
                    !.sur_ceil = SurrealInt(float_ceil),
                    !.sur_mid = SurrealSets(<<SurrealInt(float_floor)>>,
                                            <<SurrealInt(float_ceil)>>, TRUE).val]
    /\ UNCHANGED <<AddLookup, MultLookup, nops, pool, inf>>

\* a pass that builds the new sur_mid but leaves sur_ceil and sur_floor alone
FloatCtorPassKeepBounds ==
    /\ last.pc = "loop" /\ last.float_mid # last.input
    /\ IF FLess(last.input, last.float_mid)
       THEN last' = [last EXCEPT
                !.float_ceil = last.float_mid,
                !.float_mid = FHalf(FPlus(last.float_floor, last.float_mid)),
                !.sur_mid = [left |-> <<last.sur_floor>>, right |-> <<last.sur_mid>>],
                !.iters = @ + 1]
       ELSE last' = [last EXCEPT
                !.float_floor = last.float_mid,
                !.float_mid = FHalf(FPlus(last.float_mid, last.float_ceil)),
                !.sur_mid = [left |-> <<last.sur_mid>>, right |-> <<last.sur_ceil>>],
                !.iters = @ + 1]
    /\ UNCHANGED <<AddLookup, MultLookup, nops, pool, inf>>

\* one pass of while (float_mid != input)
FloatCtorPass ==
    /\ last.pc = "loop" /\ last.float_mid # last.input
    /\ IF FLess(last.input, last.float_mid)
       THEN last' = [last EXCEPT
                !.float_ceil = last.float_mid,
                !.float_mid = FHalf(FPlus(last.float_floor, last.float_mid)),
                !.sur_ceil = last.sur_mid,
                !.sur_mid = [left |-> <<last.sur_floor>>, right |-> <<last.sur_mid>>],
                !.iters = @ + 1]
       ELSE last' = [last EXCEPT
                !.float_floor = last.float_mid,
                !.float_mid = FHalf(FPlus(last.float_mid, last.float_ceil)),
                !.sur_floor = last.sur_mid,
                !.sur_mid = [left |-> <<last.sur_mid>>, right |-> <<last.sur_ceil>>],
                !.iters = @ + 1]
    /\ UNCHANGED <<AddLookup, MultLookup, nops, pool, inf>>

\* the loop ends: this->left and this->right are those of sur_mid
FloatCtorExit ==
    /\ last.pc = "loop" /\ last.float_mid = last.input
    /\ last' = [last EXCEPT !.pc = "done"]
    /\ UNCHANGED <<AddLookup, MultLookup, nops, pool, inf>>

NextFloatCtor == FloatCtorEnter \/ FloatCtorPass \/ FloatCtorExit

SpecFloatCtor == InitFloatCtor /\ [][NextFloatCtor]_vars /\ WF_vars(NextFloatCtor)

(***************************************************************************)
(* Claims about the loop of the float constructor (SpecFloatCtor).         *)
(***************************************************************************)
\* in the loop: floor < input < ceil, sur_mid is { sur_floor | sur_ceil }, and
\* no more passes have been made than the input k / 2^m has binary places
LoopInvariant ==
    last.pc = "loop" =>
        /\ FLess(last.float_floor, last.input) /\ FLess(last.input, last.float_ceil)
        /\ last.sur_mid = [left |-> <<last.sur_floor>>, right |-> <<last.sur_ceil>>]
        /\ last.iters <= last.input.exp

\* C21: the loop of the float constructor ends for every dyadic input
\* k / 2^m, after at most m passes; while it runs floor < input < ceil and
\* the midpoint number is { floor number | ceiling number }; each pass makes
\* the midpoint number one deeper; the number it ends with is the one the
\* constructor returns.
C21_BisectionTerminates ==
    /\ []LoopInvariant
    /\ [][last'.iters = last.iters + 1 => Depth(last'.sur_mid) = Depth(last.sur_mid) + 1]_vars
    /\ [](last.pc = "done" => (last.iters <= last.input.exp
                                /\ last.sur_mid = SurrealFloat(last.input)))
    /\ (last.pc = "start") ~> (last.pc = "done")

\* the constructor has ended for -3/8 after two passes
C21_Witness ==
    /\ last.op = "floatctor" /\ last.pc = "done"
    /\ last.input = [num |-> -3, exp |-> 3] /\ last.iters = 2

(***************************************************************************)
(* Claims about the values the tables hold together (Spec).                *)
(***************************************************************************)
SameRepresentation(tab) ==
    \A i, j \in DOMAIN tab : Eq(tab[i].val, tab[j].val) => tab[i].val = tab[j].val

\* C22: after any sequence of additions and multiplications, two values of
\* the addition table that are equal under the comparator have the same left
\* and right sets, and so have two values of the multiplication table.
C22_EqualValuesShareRepresentation ==
    /\ SameRepresentation(AddLookup)
    /\ SameRepresentation(MultLookup)

\* a call whose raw result was replaced by the scan has returned, and its
\* table holds the returned value under two keys or more
C22_Witness ==
    /\ (Returned("add") \/ Returned("mult")) /\ last.raw.miss
    /\ last.raw.res # last.val
    /\ LET tab == IF last.op = "add" THEN AddLookup ELSE MultLookup
       IN  \E i, j \in DOMAIN tab :
               i # j /\ tab[i].val = last.val /\ tab[j].val = last.val

(***************************************************************************)
(* Claims about Float() and the comparator together (SpecPure).            *)
(***************************************************************************)
FloatCmpDone == last.op = "floatcmp" /\ last.done

\* C23: for all valid numbers a and b, hand-built ones such as { 0 | 3 } and
\* { -2 | } included, a == b implies Float(a) = Float(b) and a < b implies
\* Float(a) < Float(b).
C23_FloatRespectsComparator ==
    FloatCmpDone =>
        /\ last.eq_ab => last.float_a = last.float_b
        /\ last.lt_ab => FLess(last.float_a, last.float_b)

(***************************************************************************)
(* The formulas of operator+ and operator* evaluated with no lookup table  *)
(* and no simplification loop: every sum and product is computed anew.     *)
(* A set is [err, set], err when a constructor has thrown on the way.      *)
(***************************************************************************)
NoSet == [err |-> FALSE, set |-> <<>>]

ThrownSet == [err |-> TRUE, set |-> <<>>]

\* result.insert(e)
PlainInsert(p, e) ==
    IF p.err \/ e.err THEN ThrownSet
    ELSE [err |-> FALSE, set |-> SetInsert(p.set, e.val)]

\* tempL1.insert(tempL2.begin(), tempL2.end())
PlainUnion(p, q) ==
    IF p.err \/ q.err THEN ThrownSet
    ELSE [err |-> FALSE, set |-> SetInsertAll(p.set, q.set)]

\* Surreal(tempL1, tempR1)
PlainConstruct(tempL, tempR) ==
    IF tempL.err \/ tempR.err THEN [err |-> TRUE, val |-> Zero]
    ELSE SurrealSets(tempL.set, tempR.set, TRUE)

RECURSIVE PlainAdd(_, _), PlainSetPlusNum(_, _), PlainSetPlusSetRow(_, _, _),
          PlainSetPlusSetFrom(_, _, _)
\* a + b = { Al + b, Bl + a | Ar + b, Br + a }
PlainAdd(a, b) ==
    PlainConstruct(PlainUnion(PlainSetPlusNum(a.left, b), PlainSetPlusNum(b.left, a)),
                   PlainUnion(PlainSetPlusNum(a.right, b), PlainSetPlusNum(b.right, a)))

PlainSetPlusNum(sur_set, sur_num) ==
    IF sur_set = <<>> THEN NoSet
    ELSE PlainInsert(PlainSetPlusNum(SubSeq(sur_set, 1, Len(sur_set) - 1), sur_num),
                     PlainAdd(sur_set[Len(sur_set)], sur_num))

PlainSetPlusSetRow(elem1, sur_set2, acc) ==
    IF sur_set2 = <<>> \/ acc.err THEN acc
    ELSE PlainSetPlusSetRow(elem1, Tail(sur_set2),
                            PlainInsert(acc, PlainAdd(elem1, Head(sur_set2))))

PlainSetPlusSetFrom(sur_set1, sur_set2, acc) ==
    IF sur_set1 = <<>> \/ acc.err THEN acc
    ELSE PlainSetPlusSetFrom(Tail(sur_set1), sur_set2,
                             PlainSetPlusSetRow(Head(sur_set1), sur_set2, acc))

PlainSetPlusSet(p, q) ==
    IF p.err \/ q.err THEN ThrownSet ELSE PlainSetPlusSetFrom(p.set, q.set, NoSet)

PlainNegateSet(p) == IF p.err THEN ThrownSet ELSE NegateSet(p.set)

RECURSIVE PlainMult(_, _), PlainSetTimesNum(_, _), PlainSetTimesSetRow(_, _, _),
          PlainSetTimesSetFrom(_, _, _)
\* the four sums of three sets, the two unions and the constructor
PlainMultSums(Al_b, Ar_b, Bl_a, Br_a, negAl_Bl, negAr_Br, negAl_Br, negAr_Bl) ==
    PlainConstruct(
        PlainUnion(PlainSetPlusSet(PlainSetPlusSet(Al_b, Bl_a), negAl_Bl),
                   PlainSetPlusSet(PlainSetPlusSet(Ar_b, Br_a), negAr_Br)),
        PlainUnion(PlainSetPlusSet(PlainSetPlusSet(Al_b, Br_a), negAl_Br),
                   PlainSetPlusSet(PlainSetPlusSet(Ar_b, Bl_a), negAr_Bl)))

\* a * b, from the eight sets of products as operator* computes them
PlainMult(a, b) ==
    PlainMultSums(PlainSetTimesNum(a.left, b), PlainSetTimesNum(a.right, b),
                  PlainSetTimesNum(b.left, a), PlainSetTimesNum(b.right, a),
                  PlainNegateSet(PlainSetTimesSetFrom(a.left, b.left, NoSet)),
                  PlainNegateSet(PlainSetTimesSetFrom(a.right, b.right, NoSet)),
                  PlainNegateSet(PlainSetTimesSetFrom(a.left, b.right, NoSet)),
                  PlainNegateSet(PlainSetTimesSetFrom(a.right, b.left, NoSet)))

PlainSetTimesNum(sur_set, sur_num) ==
    IF sur_set = <<>> THEN NoSet
    ELSE PlainInsert(PlainSetTimesNum(SubSeq(sur_set, 1, Len(sur_set) - 1), sur_num),
                     PlainMult(sur_set[Len(sur_set)], sur_num))

PlainSetTimesSetRow(elem1, sur_set2, acc) ==
    IF sur_set2 = <<>> \/ acc.err THEN acc
    ELSE PlainSetTimesSetRow(elem1, Tail(sur_set2),
                             PlainInsert(acc, PlainMult(elem1, Head(sur_set2))))

PlainSetTimesSetFrom(sur_set1, sur_set2, acc) ==
    IF sur_set1 = <<>> \/ acc.err THEN acc
    ELSE PlainSetTimesSetFrom(Tail(sur_set1), sur_set2,
                              PlainSetTimesSetRow(Head(sur_set1), sur_set2, acc))

(***************************************************************************)
(* Claims about the tables against the table-free evaluation (Spec).       *)
(***************************************************************************)
\* the call returned a number equal to the table-free value of its formula
SameAsPlain(val, plain) == ~plain.err /\ Eq(val, plain.val)

StoredSums ==
    \A i \in DOMAIN AddLookup :
        SameAsPlain(AddLookup[i].val, PlainAdd(AddLookup[i].key[1], AddLookup[i].key[2]))

StoredProducts ==
    \A i \in DOMAIN MultLookup :
        SameAsPlain(MultLookup[i].val, PlainMult(MultLookup[i].key[1], MultLookup[i].key[2]))

\* C24: in every reachable state of the tables, a + b and a * b complete
\* without InvalidConstruction and return a number equal under the comparator
\* to the value of the same formulas evaluated without any table, and every
\* stored value equals the table-free sum (product) of its key pair.
C24_MemoizationKeepsResult ==
    /\ last.op = "add" =>
         ~last.err /\ SameAsPlain(last.val, PlainAdd(last.a, last.b))
    /\ last.op = "mult" =>
         ~last.err /\ SameAsPlain(last.val, PlainMult(last.a, last.b))
    /\ StoredSums
    /\ StoredProducts
====
